---- MODULE Spec2Model ----
(***************************************************************************)
(* A model of github_stats.py: the transport client (class Queries) and    *)
(* the aggregation engine (class Stats).                                   *)
(*                                                                         *)
(* The program runs on one asyncio event loop: a coroutine runs without    *)
(* interruption from one suspension point to the next.  Every action below *)
(* is one such uninterrupted segment.  An asyncio.Lock or Semaphore that   *)
(* is free is taken without suspending, and awaiting a coroutine that      *)
(* never suspends (the accessor `languages` once _languages is set) does   *)
(* not suspend either.                                                     *)
(*                                                                         *)
(* Optional values (Optional[...] fields, cursors, JSON nulls) are <<>>    *)
(* for None and <<v>> for the value v.                                     *)
(***************************************************************************)
EXTENDS Integers, Sequences, FiniteSets, TLC

VARIABLES
    \* ---- the environment: what the remote API holds (never changes) ----
    env,
    \* ---- Stats.__init__ configuration ----
    username, _exclude_repos, _exclude_langs, _ignore_forked_repos,
    \* ---- Stats memoized fields ----
    _name, _stargazers, _forks, _total_contributions, _languages, _repos,
    _lines_changed, _views,
    \* ---- Stats._stats_lock: the task holding it, or None ----
    _stats_lock,
    \* ---- locals of the one get_stats body that holds the lock ----
    next_owned, next_contrib,
    \* ---- Queries.semaphore: free permits, and the ceiling it was built with ----
    semaphore, max_connections,
    \* ---- one entry per task awaiting an accessor of the Stats object: where
    \*      it stands, the accessor, and what the accessor returned ----
    pc, op, ret,
    \* ---- locals of lines_changed / views / total_contributions, per task:
    \*      repo_list and results (for total_contributions: the per-year values
    \*      of `response`), years ----
    repo_list, results, years,
    \* ---- one entry per direct call of Queries.query / Queries.query_rest ----
    qpc, attempt, qret,
    \* ---- history (observation only, never read by the program) ----
    started, rounds, seen, recorded, hist, failed, wrote, order, gets, all202

vars == << env, username, _exclude_repos, _exclude_langs, _ignore_forked_repos,
           _name, _stargazers, _forks, _total_contributions, _languages, _repos,
           _lines_changed, _views, _stats_lock, next_owned, next_contrib,
           semaphore, max_connections, pc, op, ret, repo_list, results, years,
           qpc, attempt, qret,
           started, rounds, seen, recorded, hist, failed, wrote, order, gets, all202 >>

cfgVars == << env, username, _exclude_repos, _exclude_langs, _ignore_forked_repos,
              max_connections >>
bulkVars == << _name, _stargazers, _forks, _languages, _repos >>
travVars == << _stats_lock, next_owned, next_contrib, started, rounds, seen, recorded,
               hist, failed >>
fanVars == << _total_contributions, _lines_changed, _views, repo_list, results, years,
              wrote, order >>
taskVars == << pc, op, ret >>
callVars == << qpc, attempt, qret, gets, all202 >>

-----------------------------------------------------------------------------
(* Bounds of the model *)

\* pages per paginated collection the server may hold
MaxPages == 2
\* repository nodes in one repos_overview response (both collections together)
MaxNodes == 2
\* the ceiling of the Queries object whose calls are followed one by one
MaxConnections == 2

(* Program constants *)

\* for _ in range(67)
MaxAttempts == 67
\* Queries.__init__(..., max_connections: int = 10), as Stats builds it
DefaultMaxConnections == 10

-----------------------------------------------------------------------------
(* Optional values *)

None == <<>>
Some(v) == <<v>>
Val(o) == o[1]

Tasks == {"t1", "t2", "t3"}

RECURSIVE SumOver(_, _)
SumOver(S, f) ==
    IF S = {} THEN 0
    ELSE LET x == CHOOSE y \in S : TRUE IN f[x] + SumOver(S \ {x}, f)

SeqsUpTo(S, n) == UNION {[1..k -> S] : k \in 0..n}

-----------------------------------------------------------------------------
(* str.lower() on the language names of the model, which are tuples of     *)
(* one-character strings.                                                  *)

LowerChar(c) ==
    CASE c = "G" -> "g"
      [] c = "O" -> "o"
      [] c = "T" -> "t"
      [] c = "S" -> "s"
      [] OTHER -> c

Lower(s) == [i \in 1..Len(s) |-> LowerChar(s[i])]

-----------------------------------------------------------------------------
(* The shape of a repos_overview response, as the query document asks for  *)
(* it: nodes { nameWithOwner stargazers { totalCount } forkCount           *)
(* languages { edges { size node { name color } } } } and pageInfo         *)
(* { hasNextPage endCursor }.                                              *)

Edge(n, s, c) == [name |-> n, size |-> s, color |-> c]

Repo(n, st, fk, es) ==
    [null |-> FALSE, nameWithOwner |-> n, stargazers |-> st, forkCount |-> fk,
     edges |-> es]

\* a null entry of "nodes"
NullRepo == [null |-> TRUE]

\* what Queries.query returns when the request failed: dict()
EmptyResult == [ok |-> FALSE]

Go == <<"G", "o">>
GO == <<"G", "O">>
TS == <<"T", "S">>
ts == <<"t", "s">>

\* the nodes the server may put on a page: one identity twice with different
\* counts, language names that differ in case only, a null node
RichNodes ==
    { NullRepo,
      Repo("a/x", 1, 1, << Edge(Go, 2, "blue"), Edge(TS, 1, "red") >>),
      Repo("a/x", 2, 0, << Edge(Go, 1, "cyan") >>),
      Repo("b/y", 3, 2, << Edge(ts, 3, "red"), Edge(GO, 1, "teal") >>) }

Names == {"a/x", "b/y"}

\* the nodes of the specification of concurrent accessors: one repository
FewNodes == { Repo("a/x", 1, 1, << Edge(Go, 2, "blue") >>) }

Login == "sethispr"

\* One collection of a response for the cursor `cur`, the collection holding P
\* pages: page idx+1 when it exists (its cursor is its number), else the empty
\* connection, whose endCursor is null.
ServerPage(P, cur, nodes) ==
    LET idx == IF cur = None THEN 0 ELSE Val(cur)
    IN  IF idx < P
        THEN [nodes |-> nodes, hasNextPage |-> idx + 1 < P, endCursor |-> Some(idx + 1)]
        ELSE [nodes |-> << >>, hasNextPage |-> FALSE, endCursor |-> None]

\* Every result Queries.query may return for repos_overview(owned_cursor,
\* contrib_cursor): the empty result, or a page of each collection.
Responses(owned_cursor, contrib_cursor) ==
    {EmptyResult} \cup
    { [ok |-> TRUE, name |-> env.viewerName, login |-> Login,
       owned |-> ServerPage(env.owned, owned_cursor, no),
       contrib |-> ServerPage(env.contrib, contrib_cursor, nc)] :
        <<no, nc>> \in { p \in SeqsUpTo(env.nodes, env.maxNodes)
                               \X SeqsUpTo(env.nodes, env.maxNodes) :
                            Len(p[1]) + Len(p[2]) <= env.maxNodes } }

-----------------------------------------------------------------------------
(* Stats.get_stats: the body of one round of the loop, as pure functions   *)

\* raw_results.get("data", {}).get("viewer", {}).get("name", None), then the
\* fallback .get("login", "No Name")
DisplayName(raw_results) ==
    IF ~raw_results.ok THEN "No Name"
    ELSE IF raw_results.name # None THEN Val(raw_results.name)
    ELSE raw_results.login

\* owned_repos / contrib_repos: .get(..., {}) of the collection
EmptyColl == [nodes |-> << >>, hasNextPage |-> FALSE, endCursor |-> None]
OwnedRepos(raw_results) == IF raw_results.ok THEN raw_results.owned ELSE EmptyColl
ContribRepos(raw_results) == IF raw_results.ok THEN raw_results.contrib ELSE EmptyColl

\* repos = owned_repos.get("nodes", []); if not ignore: repos += contrib nodes
MergedRepos(raw_results, ignore) ==
    IF ignore THEN OwnedRepos(raw_results).nodes
    ELSE OwnedRepos(raw_results).nodes \o ContribRepos(raw_results).nodes

\* exclude_langs_lower = {x.lower() for x in self._exclude_langs}
ExcludeLangsLower(exclude_langs) == {Lower(x) : x \in exclude_langs}

\* if name.lower() in exclude_langs_lower: continue
LangExcludedNoLower(name, exclude_langs_lower) == name \in exclude_langs_lower
LangExcluded(name, exclude_langs_lower) == Lower(name) \in exclude_langs_lower

\* for lang in repo.get("languages", {}).get("edges", []): ...
RECURSIVE FoldEdges(_, _, _)
FoldEdges(edges, languages, exclude_langs_lower) ==
    IF edges = << >> THEN languages
    ELSE LET lang == Head(edges)
             name == lang.name
             next ==
                 IF LangExcluded(name, exclude_langs_lower) THEN languages
                 ELSE IF name \in DOMAIN languages
                 THEN [languages EXCEPT ![name].size = @ + lang.size,
                                        ![name].occurrences = @ + 1]
                 ELSE (name :> [size |-> lang.size, occurrences |-> 1,
                                color |-> lang.color, prop |-> None]) @@ languages
         IN  FoldEdges(Tail(edges), next, exclude_langs_lower)

\* if name in self._repos or name in self._exclude_repos: continue
SkipRepoNoDedup(name, repos, exclude_repos) == name \in exclude_repos
SkipRepoNoExclude(name, repos, exclude_repos) == name \in repos
SkipRepo(name, repos, exclude_repos) == name \in repos \/ name \in exclude_repos

\* for repo in repos: ...   acc holds _repos, _stargazers, _forks, _languages (and,
\* as history, the nodes the loop recorded, in order)
RECURSIVE FoldRepos(_, _, _, _)
FoldRepos(list, acc, exclude_repos, exclude_langs_lower) ==
    IF list = << >> THEN acc
    ELSE LET repo == Head(list)
             next ==
                 IF repo.null THEN acc
                 ELSE IF SkipRepo(repo.nameWithOwner, acc.repos, exclude_repos) THEN acc
                 ELSE [repos |-> acc.repos \cup {repo.nameWithOwner},
                       stargazers |-> acc.stargazers + repo.stargazers,
                       forks |-> acc.forks + repo.forkCount,
                       languages |-> FoldEdges(repo.edges, acc.languages,
                                               exclude_langs_lower),
                       recorded |-> Append(acc.recorded, repo)]
         IN  FoldRepos(Tail(list), next, exclude_repos, exclude_langs_lower)

\* the loop's condition: hasNextPage of either collection
MorePagesBoth(raw_results) ==
    OwnedRepos(raw_results).hasNextPage /\ ContribRepos(raw_results).hasNextPage
MorePages(raw_results) ==
    OwnedRepos(raw_results).hasNextPage \/ ContribRepos(raw_results).hasNextPage

\* next_owned = owned_repos.get("pageInfo", {}).get("endCursor", next_owned)
NextCursorStuck(coll, cur) == cur
NextCursor(coll, cur) == coll.endCursor

\* langs_total = sum(...); v["prop"] = 100 * (size / langs_total) if langs_total > 0
\* else 0.  A share is kept as the fraction num/den.
WithPropUnscaled(languages) ==
    LET langs_total == SumOver(DOMAIN languages, [k \in DOMAIN languages |-> languages[k].size])
    IN  [k \in DOMAIN languages |->
            [languages[k] EXCEPT !.prop =
                IF langs_total > 0
                THEN Some([num |-> languages[k].size, den |-> langs_total])
                ELSE Some([num |-> 0, den |-> 1])]]
WithProp(languages) ==
    LET langs_total == SumOver(DOMAIN languages, [k \in DOMAIN languages |-> languages[k].size])
    IN  [k \in DOMAIN languages |->
            [languages[k] EXCEPT !.prop =
                IF langs_total > 0
                THEN Some([num |-> 100 * languages[k].size, den |-> langs_total])
                ELSE Some([num |-> 0, den |-> 1])]]

\* history: the first node seen for each identity in the working lists
RECURSIVE FirstSeen(_, _)
FirstSeen(list, first) ==
    IF list = << >> THEN first
    ELSE LET repo == Head(list)
         IN  FirstSeen(Tail(list),
                       IF repo.null \/ repo.nameWithOwner \in DOMAIN first THEN first
                       ELSE (repo.nameWithOwner :> repo) @@ first)

-----------------------------------------------------------------------------
(* The REST responses read by lines_changed and views.  A response is a    *)
(* JSON list (kind "list", its items) or a JSON object (kind "dict", its   *)
(* "views" entries, none when the key is missing).                         *)

\* what Queries.query_rest returns when the call failed or ran out of retries
EmptyDict == [kind |-> "dict", views |-> << >>]

Week(a, d) == [a |-> a, d |-> d]
AuthorObj(login, weeks) ==
    [isdict |-> TRUE, author |-> [isdict |-> TRUE, login |-> login], weeks |-> weeks]
\* an item that is no object, and an object whose "author" is null
NotADict == [isdict |-> FALSE]
NullAuthor == [isdict |-> TRUE, author |-> [isdict |-> FALSE], weeks |-> << Week(9, 9) >>]

ContributorResponses ==
    << EmptyDict,
      [kind |-> "list",
       items |-> << AuthorObj("other", << Week(5, 5) >>),
                    AuthorObj(Login, << Week(1, 0), Week(2, 1) >>) >>],
      [kind |-> "list",
       items |-> << NotADict, NullAuthor, AuthorObj(Login, << Week(3, 2) >>) >>] >>

ViewResponses ==
    << EmptyDict,
       [kind |-> "list", items |-> << >>],
       [kind |-> "dict", views |-> << 2, 3 >>] >>

\* for week in author_obj.get("weeks", []): additions += ...; deletions += ...
RECURSIVE FoldWeeks(_, _)
FoldWeeks(weeks, acc) ==
    IF weeks = << >> THEN acc
    ELSE FoldWeeks(Tail(weeks), << acc[1] + Head(weeks).a, acc[2] + Head(weeks).d >>)

\* for author_obj in response_obj: ...
RECURSIVE FoldAuthors(_, _, _)
FoldAuthors(items, acc, user) ==
    IF items = << >> THEN acc
    ELSE LET author_obj == Head(items)
             next ==
                 IF ~author_obj.isdict \/ ~author_obj.author.isdict THEN acc
                 ELSE IF author_obj.author.login # user THEN acc
                 ELSE FoldWeeks(author_obj.weeks, acc)
         IN  FoldAuthors(Tail(items), next, user)

\* for response_obj in results: ...   (lines_changed)
RECURSIVE FoldLinesLast(_, _, _)
FoldLinesLast(rs, acc, user) ==
    IF rs = << >> THEN acc
    ELSE FoldLinesLast(Tail(rs),
                       IF Head(rs).kind # "list" THEN acc
                       ELSE FoldAuthors(Head(rs).items, << 0, 0 >>, user), user)
RECURSIVE FoldLines(_, _, _)
FoldLines(rs, acc, user) ==
    IF rs = << >> THEN acc
    ELSE FoldLines(Tail(rs),
                   IF Head(rs).kind # "list" THEN acc
                   ELSE FoldAuthors(Head(rs).items, acc, user), user)

\* for view in result.get("views", []): total += view.get("count", 0)
RECURSIVE FoldCounts(_, _)
FoldCounts(views, total) ==
    IF views = << >> THEN total ELSE FoldCounts(Tail(views), total + Head(views))

\* for result in results: ...   (views)
RECURSIVE FoldViews(_, _)
FoldViews(rs, total) ==
    IF rs = << >> THEN total
    ELSE FoldViews(Tail(rs),
                   IF Head(rs).kind # "dict" THEN total
                   ELSE FoldCounts(Head(rs).views, total))

-----------------------------------------------------------------------------
(* The accessors of Stats                                                  *)

BulkOps == {"name", "stargazers", "forks", "languages", "languages_proportional", "repos"}
FanOps == {"lines_changed", "views"}
Ops == BulkOps \cup FanOps \cup {"get_stats", "total_contributions"}

\* what a task has got back from the accessor o: the accessor and the value v
Returned(o, v) == Some(<< o, v >>)
\* the value task t has got back
Result(t) == Val(ret[t])[2]

\* the memoized bulk fields as a record
Bulk == [name |-> _name, stargazers |-> _stargazers, forks |-> _forks,
         languages |-> _languages, repos |-> _repos]

\* the field an accessor tests with "is not None" and asserts after get_stats
FieldOfUnset(o, F) == IF o = "name" THEN F.name ELSE None
FieldOf(o, F) ==
    CASE o = "name" -> F.name
      [] o = "stargazers" -> F.stargazers
      [] o = "forks" -> F.forks
      [] o \in {"languages", "languages_proportional"} -> F.languages
      [] o \in {"repos"} \cup FanOps -> F.repos

\* the value a bulk accessor returns, as it is at the return (languages and repos
\* return the dict and the set themselves); languages_proportional builds
\* {k: v.get("prop", 0)}
ValueOf(o, F) ==
    IF o = "languages_proportional"
    THEN [k \in DOMAIN Val(F.languages) |->
             IF Val(F.languages)[k].prop = None THEN [num |-> 0, den |-> 1]
             ELSE Val(Val(F.languages)[k].prop)]
    ELSE Val(FieldOf(o, F))

\* the orders list(set) may give
Orders(S) == { q \in [1..Cardinality(S) -> S] : \A i, j \in 1..Cardinality(S) : q[i] = q[j] => i = j }

\* the response of the server to the REST request of accessor o for one repository
RestResponse(o, repo) ==
    IF o = "lines_changed" THEN env.contributors[repo] ELSE env.traffic[repo]

\* the fold of lines_changed / views over the gathered results
FanResult(o, rs) ==
    IF o = "lines_changed" THEN FoldLines(rs, << 0, 0 >>, username) ELSE FoldViews(rs, 0)

\* results = await asyncio.gather(*tasks) has returned
GatherDoneAny(rs) == \E i \in 1..Len(rs) : rs[i] # None
GatherDone(rs) == \A i \in 1..Len(rs) : rs[i] # None

\* The accessor o of task t goes on after get_stats (or the memo test of the field
\* it reads) has returned, the bulk fields being F and sem permits being free:
\* a bulk accessor asserts its field and returns it; lines_changed and views
\* list the item set, create one query_rest call per item and wait for all.
Resume(t, o, F, sem) ==
    CASE o = "get_stats" ->
            /\ pc' = [pc EXCEPT ![t] = "done"]
            /\ ret' = [ret EXCEPT ![t] = Returned(o, "None")]
            /\ semaphore' = sem
            /\ UNCHANGED << _lines_changed, _views, repo_list, results, wrote >>
      [] o \in BulkOps ->
            /\ IF FieldOf(o, F) = None
               THEN pc' = [pc EXCEPT ![t] = "raised"] /\ ret' = ret
               ELSE /\ pc' = [pc EXCEPT ![t] = "done"]
                    /\ ret' = [ret EXCEPT ![t] = Returned(o, ValueOf(o, F))]
            /\ semaphore' = sem
            /\ UNCHANGED << _lines_changed, _views, repo_list, results, wrote >>
      [] o \in FanOps ->
            IF F.repos = None
            THEN /\ pc' = [pc EXCEPT ![t] = "raised"]
                 /\ semaphore' = sem
                 /\ UNCHANGED << ret, _lines_changed, _views, repo_list, results, wrote >>
            ELSE \E q \in Orders(Val(F.repos)) :
                 /\ repo_list' = [repo_list EXCEPT ![t] = q]
                 /\ IF q = << >>
                    THEN \* gather of nothing returns at once
                         /\ pc' = [pc EXCEPT ![t] = "done"]
                         /\ ret' = [ret EXCEPT ![t] = Returned(o, FanResult(o, << >>))]
                         /\ _lines_changed' = IF o = "lines_changed"
                                              THEN Some(FanResult(o, << >>))
                                              ELSE _lines_changed
                         /\ _views' = IF o = "views" THEN Some(FanResult(o, << >>))
                                      ELSE _views
                         /\ wrote' = [wrote EXCEPT ![o] = @ + 1]
                         /\ semaphore' = sem
                         /\ results' = results
                    ELSE /\ sem >= Len(q)
                         /\ semaphore' = sem - Len(q)
                         /\ pc' = [pc EXCEPT ![t] = "gather"]
                         /\ results' = [results EXCEPT ![t] = [i \in 1..Len(q) |-> None]]
                         /\ UNCHANGED << ret, _lines_changed, _views, wrote >>

\* if self._name is not None: return       (before the lock, and again inside it)
Populated == _name # None
DoubleCheckMissing == FALSE
DoubleCheck == Populated

\* task t leaves "async with self._stats_lock": the lock is free again
LockKept(t) == Some(t)
LockReleased(t) == None

\* get_stats, the lock taken and the double check passed: the fields are set to
\* their empty values and the first repos_overview query is sent.
BeginTraversal(t) ==
    /\ _stats_lock' = Some(t)
    /\ _stargazers' = Some(0)
    /\ _forks' = Some(0)
    /\ _languages' = Some(<< >>)
    /\ _repos' = Some({})
    /\ next_owned' = None
    /\ next_contrib' = None
    /\ semaphore > 0
    /\ semaphore' = semaphore - 1
    /\ pc' = [pc EXCEPT ![t] = "fetch"]
    /\ started' = started + 1
    /\ rounds' = 0
    /\ hist' = << >>
    /\ UNCHANGED << _name, ret, seen, recorded, failed, _lines_changed, _views,
                    repo_list, results, wrote >>

\* await self.get_stats() from the accessor o of task t
EnterGetStats(t, o) ==
    IF Populated
    THEN /\ Resume(t, o, Bulk, semaphore)
         /\ UNCHANGED << bulkVars, travVars >>
    ELSE IF _stats_lock = None
    THEN BeginTraversal(t)
    ELSE /\ pc' = [pc EXCEPT ![t] = "lock"]
         /\ UNCHANGED << bulkVars, travVars, ret, semaphore, _lines_changed, _views,
                         repo_list, results, wrote >>

\* the loop may go round at most this often in the model (no run of the program
\* against a server of MaxPages pages reaches it)
MaxRounds == 2 * MaxPages + 2

-----------------------------------------------------------------------------
(* Actions of the aggregation engine                                       *)

\* Task t awaits the bulk accessor o, or get_stats itself.
CallBulk(t, o) ==
    /\ pc[t] = "idle"
    /\ o \in BulkOps \cup {"get_stats"}
    /\ op' = [op EXCEPT ![t] = Some(o)]
    /\ IF o \in BulkOps /\ FieldOf(o, Bulk) # None
       THEN \* if self._<field> is not None: return self._<field>
            /\ Resume(t, o, Bulk, semaphore)
            /\ UNCHANGED << bulkVars, travVars >>
       ELSE EnterGetStats(t, o)
    /\ UNCHANGED << cfgVars, _total_contributions, years, order, callVars >>

\* Task t awaits lines_changed or views.
CallFan(t, o) ==
    /\ pc[t] = "idle"
    /\ o \in FanOps
    /\ op' = [op EXCEPT ![t] = Some(o)]
    /\ LET memo == IF o = "lines_changed" THEN _lines_changed ELSE _views
       IN  IF memo # None
           THEN /\ pc' = [pc EXCEPT ![t] = "done"]
                /\ ret' = [ret EXCEPT ![t] = Returned(o, Val(memo))]
                /\ UNCHANGED << bulkVars, travVars, semaphore, _lines_changed, _views,
                                repo_list, results, wrote >>
           ELSE IF _repos # None
           THEN \* repo_list = list(await self.repos), the field being set
                /\ Resume(t, o, Bulk, semaphore)
                /\ UNCHANGED << bulkVars, travVars >>
           ELSE EnterGetStats(t, o)
    /\ UNCHANGED << cfgVars, _total_contributions, years, order, callVars >>

\* Task t, which waited for _stats_lock, is given it.
LockAcquired(t) ==
    /\ pc[t] = "lock"
    /\ _stats_lock = None
    /\ IF DoubleCheck
       THEN /\ Resume(t, Val(op[t]), Bulk, semaphore)
            /\ UNCHANGED << bulkVars, travVars >>
       ELSE BeginTraversal(t)
    /\ UNCHANGED << cfgVars, op, _total_contributions, years, order, callVars >>

\* The repos_overview query of the traversal of task t returns raw_results: one
\* round of the loop, and either the next query or the end of get_stats.
Round(t, raw_results) ==
    /\ pc[t] = "fetch"
    /\ rounds < MaxRounds
    /\ LET list == MergedRepos(raw_results, _ignore_forked_repos)
           acc == FoldRepos(list,
                            [repos |-> Val(_repos), stargazers |-> Val(_stargazers),
                             forks |-> Val(_forks), languages |-> Val(_languages),
                             recorded |-> recorded],
                            _exclude_repos, ExcludeLangsLower(_exclude_langs))
           more == MorePages(raw_results)
           F == [name |-> Some(DisplayName(raw_results)),
                 stargazers |-> Some(acc.stargazers),
                 forks |-> Some(acc.forks),
                 languages |-> Some(IF more THEN acc.languages ELSE WithProp(acc.languages)),
                 repos |-> Some(acc.repos)]
       IN  /\ _name' = F.name
           /\ _stargazers' = F.stargazers
           /\ _forks' = F.forks
           /\ _languages' = F.languages
           /\ _repos' = F.repos
           /\ seen' = FirstSeen(list, seen)
           /\ recorded' = acc.recorded
           /\ hist' = Append(hist, << OwnedRepos(raw_results).hasNextPage,
                                      ContribRepos(raw_results).hasNextPage >>)
           /\ rounds' = rounds + 1
           /\ failed' = (failed \/ ~raw_results.ok)
           /\ IF more
              THEN /\ next_owned' = NextCursor(OwnedRepos(raw_results), next_owned)
                   /\ next_contrib' = NextCursor(ContribRepos(raw_results), next_contrib)
                   \* the permit of this query is released, one is taken for the next
                   /\ UNCHANGED << _stats_lock, semaphore, taskVars, _lines_changed,
                                   _views, repo_list, results, wrote >>
              ELSE /\ _stats_lock' = LockReleased(t)
                   /\ UNCHANGED << next_owned, next_contrib, op >>
                   /\ Resume(t, Val(op[t]), F, semaphore + 1)
    /\ UNCHANGED << cfgVars, started, _total_contributions, years, order, callVars >>

\* The query_rest call for item i of the fan-out of task t returns.
RestDone(t, i) ==
    /\ pc[t] = "gather"
    /\ i \in 1..Len(results[t])
    /\ results[t][i] = None
    /\ LET o == Val(op[t])
           rs == [results[t] EXCEPT ![i] = Some(RestResponse(o, repo_list[t][i]))]
           got == SelectSeq(rs, LAMBDA r : r # None)
           value == FanResult(o, [j \in 1..Len(got) |-> Val(got[j])])
       IN  /\ results' = [results EXCEPT ![t] = rs]
           /\ order' = [order EXCEPT ![t] = Append(@, i)]
           /\ semaphore' = semaphore + 1
           /\ IF GatherDone(rs)
              THEN /\ _lines_changed' = IF o = "lines_changed" THEN Some(value)
                                        ELSE _lines_changed
                   /\ _views' = IF o = "views" THEN Some(value) ELSE _views
                   /\ wrote' = [wrote EXCEPT ![o] = @ + 1]
                   /\ pc' = [pc EXCEPT ![t] = "done"]
                   /\ ret' = [ret EXCEPT ![t] = Returned(o, value)]
              ELSE UNCHANGED << _lines_changed, _views, wrote, pc, ret >>
    /\ UNCHANGED << cfgVars, bulkVars, travVars, op, repo_list, _total_contributions,
                    years, callVars >>

\* The results Queries.query may return for contrib_years(): the list of years,
\* or the empty result, read as no years.
YearsResponses == { << >>, env.years }

\* The results it may return for all_contribs(years): per requested year the
\* totalContributions of its calendar (None when the year's data is missing),
\* or the empty result, read as no year at all.
ContribResponses(ys) == { << >>, [i \in 1..Len(ys) |-> env.totals[ys[i]]] }

\* for year_data in viewer_data.values(): self._total_contributions += ...
RECURSIVE FoldYearsAbort(_, _)
FoldYearsAbort(values, total) ==
    IF values = << >> \/ Head(values) = None THEN total
    ELSE FoldYearsAbort(Tail(values), total + Val(Head(values)))
RECURSIVE FoldYears(_, _)
FoldYears(values, total) ==
    IF values = << >> THEN total
    ELSE FoldYears(Tail(values),
                   total + (IF Head(values) = None THEN 0 ELSE Val(Head(values))))

\* Task t awaits total_contributions: the memo test, the field set to 0 and the
\* contrib_years query sent.
CallTotal(t) ==
    /\ pc[t] = "idle"
    /\ op' = [op EXCEPT ![t] = Some("total_contributions")]
    /\ IF _total_contributions # None
       THEN /\ pc' = [pc EXCEPT ![t] = "done"]
            /\ ret' = [ret EXCEPT ![t] = Returned("total_contributions",
                                                    Val(_total_contributions))]
            /\ UNCHANGED << _total_contributions, semaphore >>
       ELSE /\ _total_contributions' = Some(0)
            /\ semaphore > 0
            /\ semaphore' = semaphore - 1
            /\ pc' = [pc EXCEPT ![t] = "years"]
            /\ ret' = ret
    /\ UNCHANGED << cfgVars, bulkVars, travVars, _lines_changed, _views, repo_list,
                    results, years, wrote, order, callVars >>

\* The contrib_years query of task t returns; the all_contribs query is sent.
YearsDone(t, ys) ==
    /\ pc[t] = "years"
    /\ ys \in YearsResponses
    /\ years' = [years EXCEPT ![t] = ys]
    /\ pc' = [pc EXCEPT ![t] = "contribs"]
    \* the permit of this query is released, one is taken for the next
    /\ UNCHANGED << cfgVars, bulkVars, travVars, _total_contributions, _lines_changed,
                    _views, repo_list, results, wrote, order, semaphore, op, ret,
                    callVars >>

\* The all_contribs query of task t returns: the per-year totals are added to the
\* field and the field is returned.
ContribsDone(t, values) ==
    /\ pc[t] = "contribs"
    /\ values \in ContribResponses(years[t])
    /\ _total_contributions' = Some(FoldYears(values, Val(_total_contributions)))
    /\ semaphore' = semaphore + 1
    /\ pc' = [pc EXCEPT ![t] = "done"]
    /\ ret' = [ret EXCEPT ![t] = Returned("total_contributions",
                                            Val(_total_contributions'))]
    /\ wrote' = [wrote EXCEPT !["total_contributions"] = @ + 1]
    /\ results' = [results EXCEPT ![t] = values]
    /\ UNCHANGED << cfgVars, bulkVars, travVars, _lines_changed, _views, repo_list,
                    years, order, op, callVars >>

-----------------------------------------------------------------------------
(* Initial states                                                          *)

NoTasks == [t \in Tasks |-> None]

\* the fields of a Stats object as __init__ leaves them, in the environment e,
\* and its tasks, none of which has called anything yet
InitEngine(e, user, exclude_repos, exclude_langs, ignore) ==
    /\ env = e
    /\ username = user
    /\ _exclude_repos = exclude_repos
    /\ _exclude_langs = exclude_langs
    /\ _ignore_forked_repos = ignore
    /\ _name = None /\ _stargazers = None /\ _forks = None
    /\ _total_contributions = None /\ _languages = None /\ _repos = None
    /\ _lines_changed = None /\ _views = None
    /\ _stats_lock = None
    /\ next_owned = None /\ next_contrib = None
    /\ pc = [t \in Tasks |-> "idle"]
    /\ op = NoTasks /\ ret = NoTasks
    /\ repo_list = [t \in Tasks |-> << >>]
    /\ results = [t \in Tasks |-> << >>]
    /\ years = [t \in Tasks |-> << >>]
    /\ started = 0 /\ rounds = 0 /\ seen = << >> /\ recorded = << >>
    /\ hist = << >> /\ failed = FALSE
    /\ wrote = [o \in FanOps \cup {"total_contributions"} |-> 0]
    /\ order = [t \in Tasks |-> << >>]

\* a Stats object as __init__ leaves it: its Queries object has the default
\* ceiling, and nothing calls that object directly
InitStats(e, user, exclude_repos, exclude_langs, ignore) ==
    /\ InitEngine(e, user, exclude_repos, exclude_langs, ignore)
    /\ max_connections = DefaultMaxConnections
    /\ semaphore = DefaultMaxConnections
    /\ qpc = << >> /\ attempt = << >> /\ qret = << >> /\ gets = << >> /\ all202 = << >>

\* REST and contribution data of an account on which nothing is recorded
NoRest == [r \in Names |-> EmptyDict]

-----------------------------------------------------------------------------
(* SpecTrav: one caller of get_stats, against every server of at most      *)
(* MaxPages pages per collection and every content of the pages.           *)

InitTrav ==
    \E no, nc \in 0..MaxPages, vn \in {None, Some("Seth")},
       xr \in {{}, {"b/y"}}, xl \in {{}, {ts}, {GO}}, ig \in BOOLEAN :
        InitStats([owned |-> no, contrib |-> nc, nodes |-> RichNodes,
                   maxNodes |-> MaxNodes, viewerName |-> vn,
                   contributors |-> NoRest, traffic |-> NoRest,
                   years |-> << >>, totals |-> << >>],
                  Login, xr, xl, ig)

NextTrav ==
    \/ CallBulk("t1", "get_stats")
    \/ \E raw_results \in Responses(next_owned, next_contrib) : Round("t1", raw_results)

SpecTrav == InitTrav /\ [][NextTrav]_vars

-----------------------------------------------------------------------------
(* Properties of the traversal (SpecTrav)                                  *)

\* a traversal has begun and has released the lock
TraversalDone == started >= 1 /\ _stats_lock = None
\* a repos_overview query of the traversal is outstanding
TraversalFetching == \E t \in Tasks : pc[t] = "fetch"

EitherHasNext(h) == h[1] \/ h[2]

\* C7: the loop goes round again exactly after a round in which the owned or the
\* contributed collection reported hasNextPage, and stops after the first round in
\* which neither did; a first round in which neither did, and an account without
\* repositories, give exactly one round.
C7_LoopContinuesWhileEitherHasNext ==
    /\ rounds = Len(hist)
    /\ TraversalFetching => \A i \in 1..Len(hist) : EitherHasNext(hist[i])
    /\ TraversalDone =>
          /\ rounds >= 1
          /\ ~EitherHasNext(hist[rounds])
          /\ \A i \in 1..(rounds - 1) : EitherHasNext(hist[i])
          /\ (~EitherHasNext(hist[1]) => rounds = 1)
          /\ (env.owned = 0 /\ env.contrib = 0 => rounds = 1)

\* a traversal of two rounds: only the owned collection had a further page
C7_Witness ==
    /\ TraversalDone /\ rounds = 2
    /\ hist[1] = << TRUE, FALSE >> /\ hist[2] = << FALSE, FALSE >>

\* C8 as stated: N pages per collection give exactly N + 1 fetch rounds.
C8_RoundsArePagesPlusOne ==
    (TraversalDone /\ ~failed /\ env.owned = env.contrib) => rounds = env.owned + 1

RoundsFor(N) == IF N = 0 THEN 1 ELSE N

\* C8 amended: N pages per collection, every query answered, give exactly N fetch
\* rounds when N >= 1 and exactly one round when N = 0; the loop never goes
\* beyond that, and it ends when both collections report no further page.
C8_RoundsArePages ==
    (~failed /\ env.owned = env.contrib) =>
        /\ TraversalFetching => rounds < RoundsFor(env.owned)
        /\ TraversalDone => /\ rounds = RoundsFor(env.owned)
                            /\ ~EitherHasNext(hist[rounds])

\* two pages per collection have been fetched in two rounds
C8_Witness ==
    /\ TraversalDone /\ ~failed /\ env.owned = 2 /\ env.contrib = 2 /\ rounds = 2

SumSeq(q, F(_)) == SumOver(1..Len(q), [i \in 1..Len(q) |-> F(q[i])])

\* the bytes the edges of one node give to language k
BytesOf(repo, k) == SumSeq(repo.edges, LAMBDA e : IF e.name = k THEN e.size ELSE 0)

\* C9: in every state of a traversal the item set holds each recorded identity
\* once and no excluded identity; the popularity and fork totals are the sums
\* over the first occurrence of each recorded identity; the language mapping has
\* no entry for, and no bytes of, a language excluded case-insensitively.
C9_DedupAndExclusions ==
    _repos # None =>
        LET excluded(k) == \E x \in _exclude_langs : Lower(x) = Lower(k)
            langs == Val(_languages)
        IN  /\ \A i, j \in 1..Len(recorded) :
                  recorded[i].nameWithOwner = recorded[j].nameWithOwner => i = j
            /\ Val(_repos) = {recorded[i].nameWithOwner : i \in 1..Len(recorded)}
            /\ Val(_repos) \cap _exclude_repos = {}
            /\ \A i \in 1..Len(recorded) : recorded[i] = seen[recorded[i].nameWithOwner]
            /\ Val(_stargazers) = SumOver(Val(_repos), [n \in Val(_repos) |-> seen[n].stargazers])
            /\ Val(_forks) = SumOver(Val(_repos), [n \in Val(_repos) |-> seen[n].forkCount])
            /\ \A k \in DOMAIN langs :
                  /\ ~excluded(k)
                  /\ langs[k].size = SumSeq(recorded, LAMBDA r : BytesOf(r, k))
            /\ \A i \in 1..Len(recorded) : \A j \in 1..Len(recorded[i].edges) :
                  LET k == recorded[i].edges[j].name
                  IN  ~excluded(k) => k \in DOMAIN langs

\* a duplicate of a recorded identity with other counts has come, an identity is
\* excluded, and a language is excluded by a name of another case
C9_Witness ==
    /\ TraversalDone
    /\ _repos = Some({"a/x"}) /\ _exclude_repos = {"b/y"} /\ _exclude_langs = {ts}
    /\ "b/y" \in DOMAIN seen
    /\ seen["a/x"].stargazers = 1 /\ _stargazers = Some(1)
    /\ rounds = 2 /\ hist[1] = << TRUE, TRUE >>
    /\ DOMAIN Val(_languages) = {Go}

\* the share p (a fraction) is the number n
ShareIs(p, n) == p.num = n * p.den

\* the total byte size of a language mapping
LangsTotal(langs) == SumOver(DOMAIN langs, [k \in DOMAIN langs |-> langs[k].size])

\* the shares of a language mapping add up to n: they are fractions of one
\* denominator, the total byte size
SharesSumTo(shares, den, n) ==
    /\ \A k \in DOMAIN shares : shares[k].den = den
    /\ SumOver(DOMAIN shares, [k \in DOMAIN shares |-> shares[k].num]) = n * den

\* the language mapping of one item with the edges given, after the traversal
LangsOfItem(edges, exclude_langs) ==
    WithProp(FoldEdges(edges, << >>, ExcludeLangsLower(exclude_langs)))

GoTS == << Edge(Go, 800, "blue"), Edge(TS, 200, "red") >>

\* C12: after the traversal the shares returned by languages_proportional add up
\* to 100 when the total byte size is greater than 0 and are all 0 when it is 0;
\* one item with {Go: 800, TS: 200} gives {Go: 80, TS: 20}, and gives {Go: 100}
\* with total 800 when TS is excluded.
C12_SharesSumTo100 ==
    /\ TraversalDone =>
          LET langs == Val(_languages)
              shares == ValueOf("languages_proportional", Bulk)
          IN  /\ DOMAIN shares = DOMAIN langs
              /\ \A k \in DOMAIN langs : langs[k].prop = Some(shares[k])
              /\ IF LangsTotal(langs) > 0
                 THEN SharesSumTo(shares, LangsTotal(langs), 100)
                 ELSE \A k \in DOMAIN shares : ShareIs(shares[k], 0)
    /\ LET langs == LangsOfItem(GoTS, {})
       IN  /\ DOMAIN langs = {Go, TS}
           /\ ShareIs(Val(langs[Go].prop), 80) /\ ShareIs(Val(langs[TS].prop), 20)
    /\ LET langs == LangsOfItem(GoTS, {TS})
       IN  /\ DOMAIN langs = {Go}
           /\ ShareIs(Val(langs[Go].prop), 100) /\ LangsTotal(langs) = 800
    /\ LET langs == LangsOfItem(<< Edge(Go, 0, "blue"), Edge(TS, 0, "red") >>, {})
       IN  \A k \in {Go, TS} : ShareIs(Val(langs[k].prop), 0)

\* a traversal has ended with four languages of unequal sizes, whose shares are
\* no whole numbers
C12_Witness ==
    /\ TraversalDone
    /\ Cardinality(DOMAIN Val(_languages)) = 4
    /\ LangsTotal(Val(_languages)) = 7
    /\ \E k \in DOMAIN Val(_languages) : Val(_languages)[k].size = 2

\* the display name a page answered by the server yields
ServerName == DisplayName([ok |-> TRUE, name |-> env.viewerName, login |-> Login])

\* C16: once the first round is over, _name is the display name derived from the
\* first response (the server's when the first query was answered, "No Name"
\* when it failed, which ends the loop), whatever the later rounds received.
C16_NameFromFirstPage ==
    /\ rounds = 1 => _name = Some(IF failed THEN "No Name" ELSE ServerName)
    /\ rounds >= 2 => _name = Some(ServerName)

-----------------------------------------------------------------------------
(* SpecStats: the tasks of Tasks await accessors of one Stats object        *)
(* concurrently, in every interleaving the event loop allows.  The account *)
(* owns MaxPages pages of repositories, so the traversal is suspended      *)
(* MaxPages times with its fields partly accumulated.                      *)

StatsEnv ==
    [owned |-> MaxPages, contrib |-> 1, nodes |-> FewNodes, maxNodes |-> 1,
     viewerName |-> Some("Seth"),
     contributors |-> [r \in Names |->
                          [kind |-> "list",
                           items |-> << AuthorObj(Login, << Week(3, 2) >>) >>]],
     traffic |-> [r \in Names |-> [kind |-> "dict", views |-> << 2, 3 >>]],
     years |-> << 2020, 2021 >>,
     totals |-> (2020 :> Some(4)) @@ (2021 :> None)]

InitStatsSpec == InitStats(StatsEnv, Login, {}, {}, FALSE)

NextStats ==
    \E t \in Tasks :
        \/ \E o \in BulkOps \cup {"get_stats"} : CallBulk(t, o)
        \/ \E o \in FanOps : CallFan(t, o)
        \/ CallTotal(t)
        \/ LockAcquired(t)
        \/ \E raw_results \in Responses(next_owned, next_contrib) : Round(t, raw_results)
        \/ \E i \in 1..Len(results[t]) : RestDone(t, i)
        \/ \E ys \in YearsResponses : YearsDone(t, ys)
        \/ \E values \in ContribResponses(years[t]) : ContribsDone(t, values)

SpecStats == InitStatsSpec /\ [][NextStats]_vars

-----------------------------------------------------------------------------
(* Properties of concurrent accessors (SpecStats)                          *)

\* C1: whatever accessors the tasks await and however they interleave, the bulk
\* traversal of get_stats is begun at most once.
C1_TraversalAtMostOnce == started <= 1

\* the traversal of one task is suspended on a query while the two other tasks
\* wait for the lock
C1_Witness ==
    /\ started = 1
    /\ \E t \in Tasks : pc[t] = "fetch" /\ \A u \in Tasks \ {t} : pc[u] = "lock"

\* C2: a task that has returned from a bulk accessor or from get_stats returned
\* after the traversal had finished, with the value the field has after it.
C2_BulkAccessorsWaitForTraversal ==
    \A t \in Tasks :
        (pc[t] = "done" /\ Val(op[t]) \in BulkOps \cup {"get_stats"}) =>
            /\ TraversalDone
            /\ Val(op[t]) \in BulkOps => ret[t] = Returned(Val(op[t]), ValueOf(Val(op[t]), Bulk))

\* C3: every memoized field is write-once: once set, no step changes it.
C3_FieldsWriteOnce ==
    [][ /\ _name # None => _name' = _name
        /\ _stargazers # None => _stargazers' = _stargazers
        /\ _forks # None => _forks' = _forks
        /\ _languages # None => _languages' = _languages
        /\ _repos # None => _repos' = _repos
        /\ _lines_changed # None => _lines_changed' = _lines_changed
        /\ _total_contributions # None => _total_contributions' = _total_contributions
        /\ _views # None => _views' = _views ]_vars

\* in this step task t has listed the item set and created its query_rest calls
\* (at once returning when the list is empty)
ListsItems(t) ==
    /\ pc[t] \notin {"gather", "done"}
    /\ op'[t] # None /\ Val(op'[t]) \in FanOps
    /\ \/ pc'[t] = "gather"
       \/ pc'[t] = "done" /\ wrote' # wrote

\* C13: whenever lines_changed or views lists the item set and creates its REST
\* calls, the traversal has completed and the calls are for exactly its item set,
\* one per identity.
C13_FanOutOverFinalItemSet ==
    [][ \A t \in Tasks :
            ListsItems(t) =>
                /\ started' >= 1 /\ _stats_lock' = None
                /\ {repo_list'[t][i] : i \in 1..Len(repo_list'[t])} = Val(_repos')
                /\ Len(repo_list'[t]) = Cardinality(Val(_repos')) ]_vars

\* the tasks whose population path of the fan-out statistic o has requests out
Populating(o) ==
    {t \in Tasks : op[t] = Some(o) /\ pc[t] \in {"gather", "years", "contribs"}}

\* C14: for lines_changed, views and total_contributions, at most one task at a
\* time has requests of the population path outstanding, and the memoized field
\* is written at most once.
C14_PopulationAtMostOnce ==
    \A o \in FanOps \cup {"total_contributions"} :
        /\ Cardinality(Populating(o)) <= 1
        /\ wrote[o] <= 1

\* C15: a task that has returned from total_contributions returned after the
\* sum of the per-year totals had been computed, and returned that sum.
C15_TotalSameForEveryCaller ==
    \A t \in Tasks :
        (pc[t] = "done" /\ op[t] = Some("total_contributions")) =>
            /\ wrote["total_contributions"] = 1
            /\ _total_contributions = Some(Result(t))

\* C19: in every state, if _name is set then _stargazers, _forks, _languages and
\* _repos are set, and no accessor has failed the assertion that follows its
\* call of get_stats.
C19_NameSetImpliesFieldsSet ==
    /\ _name # None =>
          (_stargazers # None /\ _forks # None /\ _languages # None /\ _repos # None)
    /\ \A t \in Tasks : pc[t] # "raised"

\* while the traversal of one task is suspended after its first round, a second
\* task has come back from get_stats by the early return on _name, and a third,
\* which awaits a bulk accessor, has returned a value
C19_Witness ==
    \E t, u, v \in Tasks :
        /\ pc[t] = "fetch" /\ rounds >= 1 /\ _name # None
        /\ pc[u] = "done" /\ op[u] = Some("get_stats")
        /\ pc[v] = "done" /\ op[v] # None /\ Val(op[v]) \in BulkOps /\ ret[v] # None

-----------------------------------------------------------------------------
(* SpecLive: SpecStats on an event loop that does not stand still while a   *)
(* task can go on, against a server that answers every request: as long as *)
(* some task has the lock free before it or a response to read, some task  *)
(* takes its next step.                                                    *)

\* the steps of task t that follow a suspension
Continue(t) ==
    \/ LockAcquired(t)
    \/ \E raw_results \in Responses(next_owned, next_contrib) : Round(t, raw_results)
    \/ \E i \in 1..Len(results[t]) : RestDone(t, i)
    \/ \E ys \in YearsResponses : YearsDone(t, ys)
    \/ \E values \in ContribResponses(years[t]) : ContribsDone(t, values)

SpecLive == InitStatsSpec /\ [][NextStats]_vars /\ WF_vars(\E t \in Tasks : Continue(t))

\* the requests of task t that are outstanding
Outstanding(t) ==
    CASE pc[t] \in {"fetch", "years", "contribs"} -> 1
      [] pc[t] = "gather" -> Cardinality({i \in 1..Len(results[t]) : results[t][i] = None})
      [] OTHER -> 0

\* some task has called an accessor and has not returned from it
Pending == \E t \in Tasks : pc[t] \notin {"idle", "done"}

\* C20: the task that holds the traversal lock is suspended on a query of the
\* traversal, never on the lock; the permits taken are those of the outstanding
\* requests, so a task that waits for the lock holds none; and whenever calls of
\* accessors are under way, a state follows in which every one of them has
\* returned.
C20_EveryCallReturns ==
    /\ [](\A t \in Tasks : _stats_lock = Some(t) => pc[t] = "fetch")
    /\ [](max_connections - semaphore = SumOver(Tasks, [t \in Tasks |-> Outstanding(t)]))
    /\ Pending ~> ~Pending

\* the traversal of one task is suspended after a round, a second task waits for
\* the lock and a third has a REST request of its fan-out outstanding
C20_Witness ==
    \E t, u, v \in Tasks :
        /\ pc[t] = "fetch" /\ _stats_lock = Some(t) /\ rounds >= 1
        /\ pc[u] = "lock"
        /\ pc[v] = "gather"
        /\ max_connections - semaphore = 2

-----------------------------------------------------------------------------
(* SpecFan: one task awaits lines_changed, views or total_contributions on *)
(* a fresh Stats object; the account owns one page of up to three          *)
(* repositories, and the REST response of each repository is fixed by the  *)
(* environment (the empty result for a request that failed or ran out of   *)
(* retries).  The requests of the fan-out complete in every order.  The    *)
(* contributions response lacks the data of one of three years.            *)

FanNames == {"a/x", "b/y", "c/z"}
FanNodes == { Repo(n, 0, 0, << >>) : n \in FanNames }

FanYears == << 2019, 2020, 2021 >>
FanTotals == (2019 :> Some(4)) @@ (2020 :> None) @@ (2021 :> Some(3))

InitFan ==
    \E k \in [FanNames -> DOMAIN ContributorResponses] :
        InitStats([owned |-> 1, contrib |-> 0, nodes |-> FanNodes,
                   maxNodes |-> Cardinality(FanNames), viewerName |-> None,
                   contributors |-> [r \in FanNames |-> ContributorResponses[k[r]]],
                   traffic |-> [r \in FanNames |-> ViewResponses[k[r]]],
                   years |-> FanYears, totals |-> FanTotals],
                  Login, {}, {}, FALSE)

NextFan ==
    \/ \E o \in FanOps : CallFan("t1", o)
    \/ \E raw_results \in Responses(next_owned, next_contrib) : Round("t1", raw_results)
    \/ \E i \in 1..Len(results["t1"]) : RestDone("t1", i)
    \/ CallTotal("t1")
    \/ \E ys \in YearsResponses : YearsDone("t1", ys)
    \/ \E values \in ContribResponses(years["t1"]) : ContribsDone("t1", values)

SpecFan == InitFan /\ [][NextFan]_vars

\* what the response for one item adds to lines_changed and to views
ItemLines(r) == FoldLines(<< env.contributors[r] >>, << 0, 0 >>, username)
ItemViews(r) == FoldViews(<< env.traffic[r] >>, 0)

\* C10: for the item set of the traversal and the fixed per-item responses, the
\* pair returned by lines_changed and the total returned by views are the sums
\* of the items' contributions, whatever the order in which the requests
\* completed (and the order in which the item set was listed).
C10_FanOutOrderIndependent ==
    \A t \in Tasks :
        (pc[t] = "done" /\ Val(op[t]) \in FanOps) =>
            LET S == Val(_repos)
            IN  IF Val(op[t]) = "lines_changed"
                THEN /\ Result(t) = << SumOver(S, [r \in S |-> ItemLines(r)[1]]),
                                       SumOver(S, [r \in S |-> ItemLines(r)[2]]) >>
                     /\ _lines_changed = Some(Result(t))
                ELSE /\ Result(t) = SumOver(S, [r \in S |-> ItemViews(r)])
                     /\ _views = Some(Result(t))

\* three requests have completed last-first and the lines of two items were added
C10_Witness ==
    /\ pc["t1"] = "done" /\ op["t1"] = Some("lines_changed")
    /\ order["t1"] = << 3, 2, 1 >>
    /\ Result("t1")[1] >= 4
    /\ \E r \in FanNames : env.contributors[r] = EmptyDict

\* the items of S whose REST call for accessor o yielded the empty result
FailedItems(o, S) == {r \in S : RestResponse(o, r) = EmptyDict}

\* C11: an accessor of a fan-out statistic never raises; lines_changed and views
\* return the sums over the items whose call did not yield the empty result (a
\* failed item adds zero), and total_contributions returns the sum of the totals
\* of the years present in the contributions response (a missing year adds zero).
C11_FailedUnitsCountZero ==
    \A t \in Tasks :
        /\ pc[t] # "raised"
        /\ (pc[t] = "done" /\ Val(op[t]) \in FanOps) =>
              LET o == Val(op[t])
                  S == {repo_list[t][i] : i \in 1..Len(repo_list[t])}
                  good == S \ FailedItems(o, S)
              IN  IF o = "lines_changed"
                  THEN Result(t) = << SumOver(good, [r \in good |-> ItemLines(r)[1]]),
                                      SumOver(good, [r \in good |-> ItemLines(r)[2]]) >>
                  ELSE Result(t) = SumOver(good, [r \in good |-> ItemViews(r)])
        /\ (pc[t] = "done" /\ Val(op[t]) = "total_contributions") =>
              LET response == results[t]
                  present == {i \in 1..Len(response) : response[i] # None}
              IN  /\ \A i \in 1..Len(response) : response[i] = env.totals[years[t][i]]
                  /\ Result(t) = SumOver(present, [i \in present |-> Val(response[i])])

\* total_contributions has returned the sum of the first and the third year, the
\* second being absent from the response
C11_Witness ==
    /\ pc["t1"] = "done" /\ op["t1"] = Some("total_contributions")
    /\ Len(results["t1"]) = 3 /\ results["t1"][2] = None
    /\ Result("t1") = 7

-----------------------------------------------------------------------------
(* SpecQ: the transport client.  Three calls on one Queries object built    *)
(* with max_connections = MaxConnections: two of query_rest, one of query. *)
(* A call that reaches "async with self.semaphore" waits for a permit and  *)
(* is given one in a later step.  A request ends with a decoded JSON value *)
(* ("json"), a JSON null ("null"), an exception ("error") or, for REST,    *)
(* the status 202.                                                         *)

RestCalls == {"r1", "r2"}
GraphCalls == {"g1"}
Calls == RestCalls \cup GraphCalls

\* a decoded response that is not None
Json == [kind |-> "dict", views |-> << 1 >>]

GraphOutcomes == {"json", "null", "error"}
RestOutcomes == {"json", "null", "error", "202"}

\* self.semaphore has a free permit
CanAcquireAlways == TRUE
CanAcquire == semaphore > 0

\* leaving "async with self.semaphore" (by return, by continue, by an exception)
KeepPermit(sem) == sem
ReleasePermit(sem) == sem + 1

\* the iterations of "for _ in range(67)" that call c has used up
AttemptsSpentShared(c) == SumOver(RestCalls, [d \in RestCalls |-> attempt[d]])
AttemptsSpent(c) == attempt[c]

InitQ ==
    /\ InitEngine([owned |-> 0, contrib |-> 0, nodes |-> {}, maxNodes |-> 0,
                   viewerName |-> None, contributors |-> NoRest, traffic |-> NoRest,
                   years |-> << >>, totals |-> << >>],
                  Login, {}, {}, FALSE)
    /\ max_connections = MaxConnections
    /\ semaphore = MaxConnections
    /\ qpc = [c \in Calls |-> "idle"]
    /\ attempt = [c \in Calls |-> 0]
    /\ qret = [c \in Calls |-> None]
    /\ gets = [c \in Calls |-> 0]
    /\ all202 = [c \in Calls |-> TRUE]

engineVars == << env, username, _exclude_repos, _exclude_langs, _ignore_forked_repos,
                 bulkVars, travVars, fanVars, taskVars >>

\* query(...) or query_rest(...) is called: the call reaches the semaphore.
StartCall(c) ==
    /\ qpc[c] = "idle"
    /\ qpc' = [qpc EXCEPT ![c] = "wait"]
    /\ UNCHANGED << engineVars, semaphore, max_connections, attempt, qret, gets, all202 >>

\* Call c is given a permit and sends its request.
SemAcquired(c) ==
    /\ qpc[c] = "wait"
    /\ CanAcquire
    /\ semaphore' = semaphore - 1
    /\ qpc' = [qpc EXCEPT ![c] = "inflight"]
    /\ gets' = [gets EXCEPT ![c] = @ + 1]
    /\ UNCHANGED << engineVars, max_connections, attempt, qret, all202 >>

\* The POST of the query call c ends: the decoded result if it is not None,
\* else dict().
QueryDone(c, outcome) ==
    /\ c \in GraphCalls
    /\ qpc[c] = "inflight"
    /\ outcome \in GraphOutcomes
    /\ semaphore' = ReleasePermit(semaphore)
    /\ qpc' = [qpc EXCEPT ![c] = "done"]
    /\ qret' = [qret EXCEPT ![c] = IF outcome = "json" THEN Some(Json) ELSE Some(EmptyDict)]
    /\ UNCHANGED << engineVars, max_connections, attempt, gets, all202 >>

\* Call c of query_rest goes to the next iteration of its loop, or leaves the
\* loop and returns dict() when the iterations are used up.
NextAttempt(c) ==
    /\ attempt' = [attempt EXCEPT ![c] = @ + 1]
    /\ IF AttemptsSpent(c) + 1 >= MaxAttempts
       THEN /\ qpc' = [qpc EXCEPT ![c] = "done"]
            /\ qret' = [qret EXCEPT ![c] = Some(EmptyDict)]
       ELSE /\ qpc' = [qpc EXCEPT ![c] = "wait"]
            /\ qret' = qret

\* The GET of the query_rest call c ends.
RestResponded(c, outcome) ==
    /\ c \in RestCalls
    /\ qpc[c] = "inflight"
    /\ outcome \in RestOutcomes
    /\ all202' = [all202 EXCEPT ![c] = @ /\ outcome = "202"]
    /\ CASE outcome = "202" ->
                \* await asyncio.sleep(2), inside "async with self.semaphore"
                /\ qpc' = [qpc EXCEPT ![c] = "sleep"]
                /\ UNCHANGED << semaphore, attempt, qret >>
         [] outcome = "json" ->
                /\ semaphore' = ReleasePermit(semaphore)
                /\ qpc' = [qpc EXCEPT ![c] = "done"]
                /\ qret' = [qret EXCEPT ![c] = Some(Json)]
                /\ attempt' = attempt
         [] outcome = "null" ->
                \* result is None: no return, the loop goes on
                /\ semaphore' = ReleasePermit(semaphore)
                /\ NextAttempt(c)
         [] outcome = "error" ->
                /\ semaphore' = ReleasePermit(semaphore)
                /\ qpc' = [qpc EXCEPT ![c] = "done"]
                /\ qret' = [qret EXCEPT ![c] = Some(EmptyDict)]
                /\ attempt' = attempt
    /\ UNCHANGED << engineVars, max_connections, gets >>

\* The sleep of call c after a 202 is over: continue.
SleepOver(c) ==
    /\ qpc[c] = "sleep"
    /\ semaphore' = ReleasePermit(semaphore)
    /\ NextAttempt(c)
    /\ UNCHANGED << engineVars, max_connections, gets, all202 >>

NextQ ==
    \E c \in Calls :
        \/ StartCall(c)
        \/ SemAcquired(c)
        \/ \E outcome \in GraphOutcomes : QueryDone(c, outcome)
        \/ \E outcome \in RestOutcomes : RestResponded(c, outcome)
        \/ SleepOver(c)

SpecQ == InitQ /\ [][NextQ]_vars

-----------------------------------------------------------------------------
(* Properties of the transport client (SpecQ)                              *)

\* the calls whose network request is outstanding
InFlight == {c \in Calls : qpc[c] = "inflight"}

\* C4: the outstanding requests of one Queries object, graph and REST together,
\* are never more than max_connections.
C4_InFlightAtMostCeiling == Cardinality(InFlight) <= max_connections

\* a graph request and a REST request are outstanding, which is the ceiling, and
\* the third call waits for a permit
C4_Witness ==
    /\ Cardinality(InFlight) = max_connections
    /\ InFlight \cap GraphCalls # {} /\ InFlight \cap RestCalls # {}
    /\ \E c \in Calls : qpc[c] = "wait"

\* C5: whenever no call of query or query_rest is in progress, every permit is
\* back: the free permits are max_connections.
C5_PermitsAllReleased ==
    (\A c \in Calls : qpc[c] \in {"idle", "done"}) => semaphore = max_connections

\* all calls are over: one REST call after a 202 and a retry, one REST call by a
\* failure of its first request, the graph call with a result
C5_Witness ==
    /\ \A c \in Calls : qpc[c] = "done"
    /\ gets["r1"] = 2 /\ attempt["r1"] = 1 /\ qret["r1"] = Some(Json)
    /\ gets["r2"] = 1 /\ qret["r2"] = Some(EmptyDict)
    /\ qret["g1"] = Some(Json)

\* C6: a call of query_rest all of whose responses had the status 202 sends
\* exactly 67 GET requests and then returns the empty result, whatever the other
\* calls do.
C6_RetryBound ==
    \A c \in RestCalls :
        all202[c] =>
            /\ gets[c] <= MaxAttempts
            /\ qpc[c] = "done" => (gets[c] = MaxAttempts /\ qret[c] = Some(EmptyDict))

\* one call has run out of retries while the other made two attempts
C6_Witness ==
    /\ qpc["r1"] = "done" /\ all202["r1"] /\ gets["r1"] = MaxAttempts
    /\ qret["r1"] = Some(EmptyDict)
    /\ gets["r2"] = 2

\* C17: a call of query_rest goes to a further iteration of its loop only from
\* the sleep that follows a 202 response; a response that is not a 202, and a
\* failure, end the call with the decoded result or the empty result.
C17_RetryOnlyAfter202 ==
    [][ \A c \in RestCalls :
            /\ attempt'[c] # attempt[c] => qpc[c] = "sleep"
            /\ (qpc[c] = "inflight" /\ qpc'[c] \notin {"inflight", "sleep"}) =>
                  /\ qpc'[c] = "done"
                  /\ qret'[c] \in {Some(Json), Some(EmptyDict)} ]_vars

\* the permits of the semaphore that are taken
PermitsHeld == max_connections - semaphore

\* C18: the permits taken are those of the calls whose request is outstanding,
\* one each: a call that waits, sleeps between two attempts or has returned
\* holds none.
C18_PermitOnlyWhileRequestOut == PermitsHeld = Cardinality(InFlight)

====
